---- MODULE Spec2Model ----
(***************************************************************************)
(* HDR merge processing block (src/proc/hdr-merge.cpp).                    *)
(*                                                                         *)
(* The block keeps a map of pending framesets keyed by sequence id         *)
(* (_framesets) and the last merged depth frame (_depth_merged_frame).     *)
(* Each call of process_frame handles one incoming frameset to completion. *)
(***************************************************************************)
EXTENDS Integers, FiniteSets, Sequences, TLC

\* ------------------------------------------------------------------------
\* Bounds of the model
\* ------------------------------------------------------------------------
MaxCounter == 2
\* Pixels per image in the checks of the per-pixel merge.
MaxPixels == 2

Counters == 0..MaxCounter
SeqIds == {0, 1, 2}
\* <<width, height>> of the depth streams fed: they differ in width only,
\* in height only, or in both.
Resolutions == {<<640, 480>>, <<640, 720>>, <<1280, 720>>}

\* ------------------------------------------------------------------------
\* Frames
\* ------------------------------------------------------------------------
\* An empty rs2::frame handle (nullptr).
NoFrame == [type |-> "null"]

\* rs2::frame::operator bool
IsPresent(fr) == fr # NoFrame

DepthFrames ==
    {[type |-> "depth", counter |-> c, seq |-> s, w |-> r[1], h |-> r[2]] :
        c \in Counters, s \in SeqIds, r \in Resolutions}

\* An infrared frame captured together with depth frame d.
MatchingIR(d) ==
    [type |-> "infrared", counter |-> d.counter, seq |-> d.seq, w |-> d.w, h |-> d.h]

\* The infrared channels a frameset with depth frame d is fed with.
IRChoices(d) == {NoFrame, MatchingIR(d)}

\* The framesets the host pipeline feeds (all pass should_process).
Framesets ==
    UNION {{[type |-> "frameset", depth |-> d, ir |-> i] : i \in IRChoices(d)} : d \in DepthFrames}

\* FRAME_COUNTER metadata of a frame; a frameset answers with its depth frame's.
frame_counter(fr) == IF fr.type = "frameset" THEN fr.depth.counter ELSE fr.counter

\* Width and height of a frame's video stream profile.
profile_width(fr) == IF fr.type = "frameset" THEN fr.depth.w ELSE fr.w
profile_height(fr) == IF fr.type = "frameset" THEN fr.depth.h ELSE fr.h

\* The 64-bit FRAME_COUNTER metadata value of a single frame, as its upper
\* and lower 32-bit words: hi * 2^32 + lo.  A frame without a counter_hi
\* field has upper word 0.
counter_metadata(fr) ==
    [hi |-> IF "counter_hi" \in DOMAIN fr THEN fr.counter_hi ELSE 0, lo |-> fr.counter]

\* static_cast<int> of a 64-bit metadata value: the upper word is dropped
\* (every lower word of this model is below 2^31).
ToInt(x) == x.lo

\* The frame source's allocate_video_frame: a new depth frame carrying the
\* metadata and profile of the original frame it is allocated from.
allocate_video_frame(original, use_ir) ==
    [type |-> "merged_depth", counter |-> original.counter, seq |-> original.seq,
     w |-> original.w, h |-> original.h, use_ir |-> use_ir]

\* ------------------------------------------------------------------------
\* State
\* ------------------------------------------------------------------------
VARIABLES
    framesets,           \* _framesets: map from sequence id to frameset
    depth_merged_frame,  \* _depth_merged_frame: last merge result or NoFrame
    f,                   \* the argument of the last process_frame call
    ret,                 \* what that call returned (NoFrame: nothing returned)
    path,                \* the branch that call took
    pair,                \* <<fs_0, fs_1>> popped by that call, or <<>>
    discarded,           \* that call executed _depth_merged_frame = nullptr
    ever_merged,         \* some call so far produced a merged frame
    eval,                \* a helper function under evaluation: arguments and result
    script               \* progress of a scripted delivery of two pairs

vars == <<framesets, depth_merged_frame, f, ret, path, pair, discarded, ever_merged,
          eval, script>>

\* No helper function is under evaluation; no scripted delivery is under way.
NoEval == [op |-> "none"]
NoScript == [pos |-> 0]

EmptyMap == [k \in {} |-> NoFrame]

size(m) == Cardinality(DOMAIN m)

\* std::map::operator[] used as an rvalue
at(m, k) == IF k \in DOMAIN m THEN m[k] ELSE NoFrame

Init ==
    /\ framesets = EmptyMap
    /\ depth_merged_frame = NoFrame
    /\ f = NoFrame
    /\ ret = NoFrame
    /\ path = "init"
    /\ pair = <<>>
    /\ discarded = FALSE
    /\ ever_merged = FALSE
    /\ eval = NoEval
    /\ script = NoScript

\* ------------------------------------------------------------------------
\* process_frame, step 2: add the frameset to the map of framesets
\* ------------------------------------------------------------------------
admit_by_id(fsets, fs) ==
    LET depth_seq_id == fs.depth.seq
    IN  IF depth_seq_id \in {0, 1}
        THEN [k \in (DOMAIN fsets) \cup {depth_seq_id} |->
                 IF k = depth_seq_id THEN fs ELSE fsets[k]]
        ELSE fsets

admit(fsets, fs) ==
    LET depth_seq_id == fs.depth.seq
    IN  IF size(fsets) = depth_seq_id
        THEN [k \in (DOMAIN fsets) \cup {depth_seq_id} |->
                 IF k = depth_seq_id THEN fs ELSE fsets[k]]
        ELSE fsets

\* ------------------------------------------------------------------------
\* should_ir_be_used_for_merging
\* ------------------------------------------------------------------------
\* The dimension test reads first_ir and second_ir whether or not they are
\* null.  Reading the height of a null frame is answered by the frame
\* interface: it raises, or it hands back some value (null_query_raises).
\* The || chain short-circuits, so second_ir is read only when first_ir
\* agrees with first_depth.
should_ir_be_used_for_merging(first_depth, first_ir, second_depth, second_ir, null_query_raises) ==
    LET both == IsPresent(first_ir) /\ IsPresent(second_ir)
        null_queried ==
            \/ ~IsPresent(first_ir)
            \/ /\ first_depth.h = first_ir.h
               /\ first_depth.w = first_ir.w
               /\ ~IsPresent(second_ir)
        dims_differ ==
            \/ first_depth.h # first_ir.h
            \/ first_depth.w # first_ir.w
            \/ second_ir.h # first_ir.h
            \/ second_ir.w # first_ir.w
        counters_0 == ToInt(counter_metadata(first_depth)) = ToInt(counter_metadata(first_ir))
        counters_1 == ToInt(counter_metadata(second_depth)) = ToInt(counter_metadata(second_ir))
        seq_0 == first_depth.seq = first_ir.seq
        seq_1 == second_depth.seq = second_ir.seq
    IN  IF null_queried
        THEN [raised |-> null_query_raises, use_ir |-> FALSE]
        ELSE IF ~both \/ dims_differ
        THEN [raised |-> FALSE, use_ir |-> FALSE]
        ELSE [raised |-> FALSE,
              use_ir |-> counters_0 /\ counters_1 /\ seq_0 /\ seq_1]

\* ------------------------------------------------------------------------
\* check_frames_mergeability
\* ------------------------------------------------------------------------
check_frames_mergeability_increasing(first_fs, second_fs, null_query_raises) ==
    LET first_depth == first_fs.depth
        second_depth == second_fs.depth
        ir == should_ir_be_used_for_merging(first_depth, first_fs.ir,
                                            second_depth, second_fs.ir, null_query_raises)
    IN  IF first_depth.counter >= second_depth.counter
        THEN [mergeable |-> FALSE, use_ir |-> FALSE, raised |-> FALSE]
        ELSE IF first_depth.h # second_depth.h \/ first_depth.w # second_depth.w
        THEN [mergeable |-> FALSE, use_ir |-> FALSE, raised |-> FALSE]
        ELSE [mergeable |-> ~ir.raised, use_ir |-> ir.use_ir, raised |-> ir.raised]

check_frames_mergeability(first_fs, second_fs, null_query_raises) ==
    LET first_depth == first_fs.depth
        second_depth == second_fs.depth
        ir == should_ir_be_used_for_merging(first_depth, first_fs.ir,
                                            second_depth, second_fs.ir, null_query_raises)
    IN  IF first_depth.counter + 1 # second_depth.counter
        THEN [mergeable |-> FALSE, use_ir |-> FALSE, raised |-> FALSE]
        ELSE IF first_depth.h # second_depth.h \/ first_depth.w # second_depth.w
        THEN [mergeable |-> FALSE, use_ir |-> FALSE, raised |-> FALSE]
        ELSE [mergeable |-> ~ir.raised, use_ir |-> ir.use_ir, raised |-> ir.raised]

\* ------------------------------------------------------------------------
\* merging_algorithm
\* ------------------------------------------------------------------------
\* alloc_ok: whether source.allocate_video_frame hands back a frame.
merging_algorithm_from_second(first_fs, second_fs, use_ir, alloc_ok) ==
    IF alloc_ok
    THEN allocate_video_frame(second_fs.depth, use_ir)
    ELSE first_fs

merging_algorithm(first_fs, second_fs, use_ir, alloc_ok) ==
    IF alloc_ok
    THEN allocate_video_frame(first_fs.depth, use_ir)
    ELSE first_fs

\* ------------------------------------------------------------------------
\* discard_depth_merged_frame_if_needed
\* ------------------------------------------------------------------------
discard_ignoring_height(merged, input) ==
    IF IsPresent(merged)
       /\ (\/ frame_counter(merged) > frame_counter(input)
           \/ profile_width(merged) # profile_width(input))
    THEN NoFrame
    ELSE merged

discard_depth_merged_frame_if_needed(merged, input) ==
    IF IsPresent(merged)
       /\ (\/ frame_counter(merged) > frame_counter(input)
           \/ profile_width(merged) # profile_width(input)
           \/ profile_height(merged) # profile_height(input))
    THEN NoFrame
    ELSE merged

\* ------------------------------------------------------------------------
\* process_frame, step 7: return the merge frame
\* ------------------------------------------------------------------------
return_input(merged, input) == input

return_frame(merged, input) == IF IsPresent(merged) THEN merged ELSE input

\* ------------------------------------------------------------------------
\* process_frame
\* ------------------------------------------------------------------------
process_frame(fs) ==
    LET added == admit(framesets, fs)
    IN  /\ f' = fs
        /\ IF size(added) >= 2
           THEN LET fs_0 == at(added, 0)
                    fs_1 == at(added, 1)
                IN  /\ framesets' = EmptyMap
                    /\ pair' = <<fs_0, fs_1>>
                    /\ \E null_query_raises \in BOOLEAN :
                         LET verdict == check_frames_mergeability(fs_0, fs_1, null_query_raises)
                         IN  IF verdict.raised
                             THEN /\ path' = "raised"
                                  /\ ret' = NoFrame
                                  /\ UNCHANGED <<depth_merged_frame, ever_merged>>
                                  /\ discarded' = FALSE
                             ELSE IF verdict.mergeable
                             THEN \E alloc_ok \in BOOLEAN :
                                    LET new_frame == merging_algorithm(fs_0, fs_1, verdict.use_ir, alloc_ok)
                                        merged == IF IsPresent(new_frame)
                                                  THEN new_frame
                                                  ELSE depth_merged_frame
                                    IN  /\ depth_merged_frame' = merged
                                        /\ path' = IF alloc_ok THEN "merged" ELSE "alloc_failed"
                                        /\ ever_merged' = (ever_merged \/ alloc_ok)
                                        /\ discarded' = FALSE
                                        /\ ret' = return_frame(merged, fs)
                             ELSE LET merged == discard_depth_merged_frame_if_needed(depth_merged_frame, fs)
                                  IN  /\ depth_merged_frame' = merged
                                      /\ path' = "not_mergeable"
                                      /\ discarded' = (merged # depth_merged_frame)
                                      /\ ret' = return_frame(merged, fs)
                                      /\ UNCHANGED ever_merged
           ELSE /\ framesets' = added
                /\ pair' = <<>>
                /\ path' = "incomplete"
                /\ discarded' = FALSE
                /\ ret' = return_frame(depth_merged_frame, fs)
                /\ UNCHANGED <<depth_merged_frame, ever_merged>>

Next == \E fs \in Framesets : process_frame(fs) /\ UNCHANGED <<eval, script>>

Spec == Init /\ [][Next]_vars

\* ------------------------------------------------------------------------
\* merging_algorithm: the per-pixel merge
\* ------------------------------------------------------------------------
\* Saturation thresholds of the infrared image (0x05 and 0xfa).
IR_UNDER_SATURATED_VALUE == 5
IR_OVER_SATURATED_VALUE == 250

is_infrared_valid_from_low(ir_value) ==
    (ir_value >= IR_UNDER_SATURATED_VALUE) /\ (ir_value < IR_OVER_SATURATED_VALUE)

is_infrared_valid(ir_value) ==
    (ir_value > IR_UNDER_SATURATED_VALUE) /\ (ir_value < IR_OVER_SATURATED_VALUE)

\* new_data after the loops of merging_algorithm over the width * height
\* pixels: d0, d1 the depth data of the first and second frame, i0, i1 their
\* infrared data (read only when use_ir).
merge_pixels_second_first(d0, d1, i0, i1, use_ir) ==
    [i \in 1..Len(d0) |->
        IF use_ir
        THEN IF is_infrared_valid(i1[i]) /\ d1[i] # 0 THEN d1[i]
             ELSE IF is_infrared_valid(i0[i]) /\ d0[i] # 0 THEN d0[i]
             ELSE 0
        ELSE IF d1[i] # 0 THEN d1[i]
             ELSE IF d0[i] # 0 THEN d0[i]
             ELSE 0]

merge_pixels(d0, d1, i0, i1, use_ir) ==
    [i \in 1..Len(d0) |->
        IF use_ir
        THEN IF is_infrared_valid(i0[i]) /\ d0[i] # 0 THEN d0[i]
             ELSE IF is_infrared_valid(i1[i]) /\ d1[i] # 0 THEN d1[i]
             ELSE 0
        ELSE IF d0[i] # 0 THEN d0[i]
             ELSE IF d1[i] # 0 THEN d1[i]
             ELSE 0]

\* Depth values (0: no depth) and infrared values (at and next to the
\* thresholds) of the images the merge is evaluated on.
FirstDepthValues == {0, 5}
SecondDepthValues == {0, 7}
InfraredValues ==
    {IR_UNDER_SATURATED_VALUE, IR_UNDER_SATURATED_VALUE + 1, IR_OVER_SATURATED_VALUE}

Images(values, n) == [1..n -> values]

\* A merge to evaluate: images of 1..MaxPixels pixels, with infrared data
\* when use_ir and without when not.
PixelInput(e) ==
    \E n \in 1..MaxPixels :
        \E a \in Images(FirstDepthValues, n), b \in Images(SecondDepthValues, n) :
            \/ \E x \in Images(InfraredValues, n), y \in Images(InfraredValues, n) :
                  e = [op |-> "merge_pixels", d0 |-> a, d1 |-> b, i0 |-> x, i1 |-> y,
                       use_ir |-> TRUE, done |-> FALSE, new_data |-> <<>>]
            \/ e = [op |-> "merge_pixels", d0 |-> a, d1 |-> b, i0 |-> <<>>, i1 |-> <<>>,
                    use_ir |-> FALSE, done |-> FALSE, new_data |-> <<>>]

\* Everything but eval, as the constructor leaves it.
BlockIdle ==
    /\ framesets = EmptyMap
    /\ depth_merged_frame = NoFrame
    /\ f = NoFrame
    /\ ret = NoFrame
    /\ path = "init"
    /\ pair = <<>>
    /\ discarded = FALSE
    /\ ever_merged = FALSE
    /\ script = NoScript

block == <<framesets, depth_merged_frame, f, ret, path, pair, discarded, ever_merged>>

PixelInit ==
    /\ BlockIdle
    /\ PixelInput(eval)

MergePixels ==
    /\ eval.op = "merge_pixels"
    /\ ~eval.done
    /\ eval' = [eval EXCEPT
                  !.new_data = merge_pixels(eval.d0, eval.d1, eval.i0, eval.i1, eval.use_ir),
                  !.done = TRUE]
    /\ UNCHANGED <<block, script>>

PixelNext == MergePixels

PixelSpec == PixelInit /\ [][PixelNext]_vars

\* ------------------------------------------------------------------------
\* check_frames_mergeability evaluated on a pair
\* ------------------------------------------------------------------------
\* Infrared frames of any counter (upper word 0 or 1), sequence id and
\* resolution.
InfraredFrames ==
    {[type |-> "infrared", counter |-> c, counter_hi |-> hi, seq |-> s,
      w |-> r[1], h |-> r[2]] :
        c \in Counters, hi \in {0, 1}, s \in {0, 1}, r \in Resolutions}

\* Framesets of depth sequence id s with any infrared frame or none.
FramesetsOfId(s) ==
    {[type |-> "frameset", depth |-> d, ir |-> i] :
        d \in {x \in DepthFrames : x.seq = s}, i \in InfraredFrames \cup {NoFrame}}

NoVerdict == [mergeable |-> FALSE, use_ir |-> FALSE, raised |-> FALSE]

\* The pairs process_frame pops: slot 0 of id 0, slot 1 of id 1.
CheckInit ==
    /\ BlockIdle
    /\ \E a \in FramesetsOfId(0), b \in FramesetsOfId(1) :
          eval = [op |-> "check_frames_mergeability", first_fs |-> a, second_fs |-> b,
                  done |-> FALSE, verdict |-> NoVerdict]

CheckMergeability ==
    /\ eval.op = "check_frames_mergeability"
    /\ ~eval.done
    /\ \E null_query_raises \in BOOLEAN :
          eval' = [eval EXCEPT
                     !.verdict = check_frames_mergeability(eval.first_fs, eval.second_fs,
                                                           null_query_raises),
                     !.done = TRUE]
    /\ UNCHANGED <<block, script>>

CheckNext == CheckMergeability

CheckSpec == CheckInit /\ [][CheckNext]_vars

\* ------------------------------------------------------------------------
\* should_process
\* ------------------------------------------------------------------------
\* A frame offered to the block, with what its depth frame answers about
\* the SUBPRESET_SEQUENCE_SIZE and SUBPRESET_SEQUENCE_ID metadata.
should_process_any_size(c) ==
    IF ~IsPresent(c.frame) THEN FALSE
    ELSE IF c.frame.type # "frameset" THEN FALSE
    ELSE IF ~IsPresent(c.frame.depth) THEN FALSE
    ELSE IF ~c.supports_seq_size THEN FALSE
    ELSE IF ~c.supports_seq_id THEN FALSE
    ELSE TRUE

should_process(c) ==
    IF ~IsPresent(c.frame) THEN FALSE
    ELSE IF c.frame.type # "frameset" THEN FALSE
    ELSE IF ~IsPresent(c.frame.depth) THEN FALSE
    ELSE IF ~c.supports_seq_size THEN FALSE
    ELSE IF ~c.supports_seq_id THEN FALSE
    ELSE IF c.seq_size # 2 THEN FALSE
    ELSE TRUE

\* Framesets of one resolution with their infrared frame.
GateFramesets ==
    {fs \in Framesets :
        /\ fs.depth.seq \in {0, 1}
        /\ fs.depth.w = 640
        /\ fs.depth.h = 480
        /\ IsPresent(fs.ir)}

\* The frames the host offers: no frame, a single depth frame, a frameset
\* without depth frame, and framesets whose depth frame lacks either
\* metadata field or carries a sequence size of 1, 2 or 3.
Candidates ==
    {[frame |-> NoFrame, supports_seq_size |-> FALSE, supports_seq_id |-> FALSE, seq_size |-> 0],
     [frame |-> [type |-> "depth", counter |-> 0, seq |-> 0, w |-> 640, h |-> 480],
      supports_seq_size |-> TRUE, supports_seq_id |-> TRUE, seq_size |-> 2],
     [frame |-> [type |-> "frameset", depth |-> NoFrame, ir |-> NoFrame],
      supports_seq_size |-> FALSE, supports_seq_id |-> FALSE, seq_size |-> 0]}
    \cup
    {[frame |-> fs, supports_seq_size |-> FALSE, supports_seq_id |-> si, seq_size |-> 0] :
        fs \in GateFramesets, si \in BOOLEAN}
    \cup
    {[frame |-> fs, supports_seq_size |-> TRUE, supports_seq_id |-> si, seq_size |-> n] :
        fs \in GateFramesets, si \in BOOLEAN, n \in {1, 2, 3}}

\* The host asks should_process about a frame.
ShouldProcess(c) ==
    /\ eval' = [op |-> "should_process", candidate |-> c, result |-> should_process(c)]
    /\ UNCHANGED <<block, script>>

\* The host hands the frame should_process accepted to process_frame.
ProcessAdmitted ==
    /\ eval.op = "should_process"
    /\ eval.result
    /\ process_frame(eval.candidate.frame)
    /\ eval' = NoEval
    /\ UNCHANGED script

GateNext ==
    \/ \E c \in Candidates : ShouldProcess(c)
    \/ ProcessAdmitted

GateSpec == Init /\ [][GateNext]_vars

\* ------------------------------------------------------------------------
\* Two consecutive well-formed pairs delivered to process_frame
\* ------------------------------------------------------------------------
\* The k-th bundle (k = 1..4) of two consecutive pairs starting at counter
\* n with resolution r: sequence ids 0, 1, 0, 1 and counters n .. n+3.
ScriptDepth(k, n, r) ==
    [type |-> "depth", counter |-> n + k - 1, seq |-> (k - 1) % 2,
     w |-> r[1], h |-> r[2]]

\* Any calls, before the two pairs are delivered.
FreeCall ==
    /\ script.pos = 0
    /\ \E fs \in Framesets : process_frame(fs)
    /\ UNCHANGED <<eval, script>>

\* The first bundle of the two pairs arrives, in whatever state the block is.
DeliverFirst ==
    /\ script.pos = 0
    /\ \E n \in Counters, r \in Resolutions :
         \E i \in IRChoices(ScriptDepth(1, n, r)) :
            /\ process_frame([type |-> "frameset", depth |-> ScriptDepth(1, n, r), ir |-> i])
            /\ script' = [pos |-> 1, n |-> n, res |-> r, fresh |-> FALSE,
                          empty_at_start |-> (framesets = EmptyMap),
                          fresh_at_2 |-> FALSE]
    /\ UNCHANGED eval

\* The next bundle of the two pairs arrives; its allocation, if any, succeeds.
DeliverNext ==
    /\ script.pos \in 1..3
    /\ LET k == script.pos + 1
           d == ScriptDepth(k, script.n, script.res)
       IN  \E i \in IRChoices(d) :
              /\ process_frame([type |-> "frameset", depth |-> d, ir |-> i])
              /\ path' # "alloc_failed"
              /\ script' = [script EXCEPT
                              !.pos = k,
                              !.fresh = script.fresh \/ path' = "merged",
                              !.fresh_at_2 = IF k = 2 THEN path' = "merged"
                                             ELSE script.fresh_at_2]
    /\ UNCHANGED eval

ScriptNext == FreeCall \/ DeliverFirst \/ DeliverNext

ScriptSpec == Init /\ [][ScriptNext]_vars

\* ------------------------------------------------------------------------
\* One depth resolution and frame counters that never decrease
\* ------------------------------------------------------------------------
\* fs may follow the previous input f: same depth resolution, and a frame
\* counter not below the previous one.
Follows(fs) ==
    IF ~IsPresent(f) THEN TRUE
    ELSE /\ profile_width(fs.depth) = profile_width(f.depth)
         /\ profile_height(fs.depth) = profile_height(f.depth)
         /\ frame_counter(fs.depth) >= frame_counter(f.depth)

MonoNext ==
    /\ \E fs \in Framesets : Follows(fs) /\ process_frame(fs)
    /\ UNCHANGED <<eval, script>>

MonoSpec == Init /\ [][MonoNext]_vars

\* ------------------------------------------------------------------------
\* Properties
\* ------------------------------------------------------------------------
\* The staleness criteria of the cached merge against an input, as stated:
\* the cached counter is greater than the input's, or a dimension differs.
Stale(merged, input) ==
    \/ frame_counter(merged) > frame_counter(input)
    \/ profile_width(merged) # profile_width(input)
    \/ profile_height(merged) # profile_height(input)

\* The depth frames of a pair are adjacent (N, N+1) and of equal dimensions.
DepthValid(p) ==
    /\ p[1].depth.counter + 1 = p[2].depth.counter
    /\ p[1].depth.w = p[2].depth.w
    /\ p[1].depth.h = p[2].depth.h

\* The call called merging_algorithm (with the popped pair as arguments).
MergeInvoked(p) == p \in {"merged", "alloc_failed"}

\* C1: whenever merging_algorithm is invoked, its first argument has depth
\* sequence id 0 and was in slot 0 before the call (delivered earlier), its
\* second argument has sequence id 1 and is the bundle of this call, and
\* first.frame_counter + 1 = second.frame_counter.
C1_MergeOrder ==
    [][MergeInvoked(path') =>
          /\ 0 \in DOMAIN framesets
          /\ pair'[1] = framesets[0]
          /\ pair'[2] = f'
          /\ pair'[1].depth.seq = 0
          /\ pair'[2].depth.seq = 1
          /\ pair'[1].depth.counter + 1 = pair'[2].depth.counter]_vars

\* C1 witness: a call merged the pair of counters (1, 2).
C1_Witness ==
    /\ path = "merged"
    /\ pair[1].depth.counter = 1
    /\ pair[2].depth.counter = 2

\* C2: a bundle of sequence id k is inserted into slot k only if the buffer
\* holds exactly k entries; otherwise the buffer is left as it was (id 1 at an
\* empty buffer leaves it empty, id 0 at an occupied slot 0 does not overwrite
\* it); a pair is popped only when slot 0 held an id-0 bundle and the call's
\* bundle has id 1.
C2_Admission ==
    [][LET n == size(framesets)
           k == f'.depth.seq
       IN  /\ (n # k => framesets' = framesets /\ pair' = <<>>)
           /\ (framesets' # framesets /\ framesets' # EmptyMap =>
                  n = k /\ framesets' = [i \in {k} |-> f'])
           /\ (pair' # <<>> =>
                  /\ n = 1
                  /\ k = 1
                  /\ framesets[0].depth.seq = 0
                  /\ pair' = <<framesets[0], f'>>)]_vars

\* C2 witness: an id-0 bundle arrived while slot 0 held another bundle, and
\* slot 0 still holds that other bundle.
C2_Witness ==
    /\ path = "incomplete"
    /\ 0 \in DOMAIN framesets
    /\ f.depth.seq = 0
    /\ framesets[0] # f

\* The call returned a frame (it was not left by a raised error).
Returned == path \notin {"init", "raised"}

C5_StalenessExact ==
    [][(path' = "not_mergeable" /\ IsPresent(depth_merged_frame)) =>
          /\ (depth_merged_frame' = NoFrame) <=> Stale(depth_merged_frame, f')
          /\ discarded' <=> Stale(depth_merged_frame, f')
          /\ ~Stale(depth_merged_frame, f') =>
                /\ depth_merged_frame' = depth_merged_frame
                /\ ret' = depth_merged_frame]_vars

\* C5 witness: after a successful merge, a pair failed validation and the
\* stale cache was discarded.
C5_Witness ==
    /\ ever_merged
    /\ path = "not_mergeable"
    /\ discarded
    /\ depth_merged_frame = NoFrame

\* C6: a popped pair whose depth counters are not N and N+1, or whose depth
\* widths or heights differ, is not mergeable and merging_algorithm is not
\* invoked; the cache is not replaced by a new frame, the pair is gone from
\* the buffer, and the staleness check is run against the input.
C6_InvalidPairNotMerged ==
    [][(pair' # <<>> /\ ~DepthValid(pair')) =>
          /\ \A r \in BOOLEAN :
                ~check_frames_mergeability(pair'[1], pair'[2], r).mergeable
          /\ path' = "not_mergeable"
          /\ framesets' = EmptyMap
          /\ depth_merged_frame' \in {depth_merged_frame, NoFrame}
          /\ discarded' <=>
                (IsPresent(depth_merged_frame) /\ Stale(depth_merged_frame, f'))
          /\ discarded' => depth_merged_frame' = NoFrame]_vars

\* C6 witness: a pair with counters N and N+2 and equal dimensions was popped
\* and not merged.
C6_Witness ==
    /\ path = "not_mergeable"
    /\ pair[1].depth.counter + 2 = pair[2].depth.counter
    /\ pair[1].depth.w = pair[2].depth.w
    /\ pair[1].depth.h = pair[2].depth.h

\* C7 (as stated): the cached result is absent or the output of a successful
\* merge; after an allocation failure the unmerged first bundle is not
\* stored as the cached result.
C7_Claim ==
    IsPresent(depth_merged_frame) => depth_merged_frame.type = "merged_depth"

\* C8 (as stated): while no merge has ever succeeded, every call that does
\* not itself produce a merge (pair incomplete, or pair failing validation)
\* returns its raw input unchanged.
C8_Claim ==
    (~ever_merged /\ path \in {"incomplete", "not_mergeable"}) => ret = f

\* C9: the buffer never exceeds 2 bundles, also inside a call; a call that
\* pops a pair leaves the buffer empty whatever happens to the pair; between
\* calls the buffer is empty or holds one bundle, in slot 0, of id 0; the
\* cache is a single frame or absent.
C9_Bounded ==
    /\ \A fs \in Framesets : size(admit(framesets, fs)) <= 2
    /\ size(framesets) <= 1
    /\ size(framesets) = 1 =>
          DOMAIN framesets = {0} /\ framesets[0].depth.seq = 0
    /\ pair # <<>> => framesets = EmptyMap
    /\ \/ depth_merged_frame = NoFrame
       \/ depth_merged_frame.type \in {"merged_depth", "frameset"}

\* C9 witness: a call popped a pair that then failed validation, and the
\* buffer is empty.
C9_Witness ==
    /\ pair # <<>>
    /\ path = "not_mergeable"
    /\ framesets = EmptyMap

\* C10 (as stated): when a bundle of a depth-valid pair has no infrared
\* frame, no error is raised, use_infrared is false, and the pair is merged
\* depth-only and cached (when the frame is allocated).
C10_Claim ==
    (/\ pair # <<>>
     /\ DepthValid(pair)
     /\ ~IsPresent(pair[1].ir) \/ ~IsPresent(pair[2].ir)) =>
        /\ MergeInvoked(path)
        /\ path = "merged" =>
              depth_merged_frame = allocate_video_frame(pair[1].depth, FALSE)

\* The infrared band as stated: lower threshold excluded, upper included.
StatedBand(ir) == IR_UNDER_SATURATED_VALUE < ir /\ ir <= IR_OVER_SATURATED_VALUE

\* The infrared band with both thresholds excluded.
OpenBand(ir) == IR_UNDER_SATURATED_VALUE < ir /\ ir < IR_OVER_SATURATED_VALUE

\* C11 (as stated): with use_infrared, pixel i is first.depth[i] if
\* first_ir[i] is in the band IR_LOW < ir <= IR_HIGH and first.depth[i] # 0,
\* else second.depth[i] if second_ir[i] is in that band and
\* second.depth[i] # 0, else 0.
C11_Original ==
    (eval.op = "merge_pixels" /\ eval.done /\ eval.use_ir) =>
        \A i \in 1..Len(eval.d0) :
            eval.new_data[i] =
                IF StatedBand(eval.i0[i]) /\ eval.d0[i] # 0 THEN eval.d0[i]
                ELSE IF StatedBand(eval.i1[i]) /\ eval.d1[i] # 0 THEN eval.d1[i]
                ELSE 0

\* C11 (amended): the same selection, where an infrared value is in the
\* valid band exactly when IR_LOW < ir < IR_HIGH (both thresholds excluded).
C11_Amended ==
    (eval.op = "merge_pixels" /\ eval.done /\ eval.use_ir) =>
        /\ Len(eval.new_data) = Len(eval.d0)
        /\ \A i \in 1..Len(eval.d0) :
              eval.new_data[i] =
                  IF OpenBand(eval.i0[i]) /\ eval.d0[i] # 0 THEN eval.d0[i]
                  ELSE IF OpenBand(eval.i1[i]) /\ eval.d1[i] # 0 THEN eval.d1[i]
                  ELSE 0

\* C11 witness: a pixel whose first depth is nonzero under an infrared value
\* equal to the upper threshold took the second frame's depth.
C11_Witness ==
    /\ eval.op = "merge_pixels"
    /\ eval.done
    /\ eval.use_ir
    /\ \E i \in 1..Len(eval.d0) :
          /\ eval.i0[i] = IR_OVER_SATURATED_VALUE
          /\ eval.d0[i] = 5
          /\ eval.d1[i] = 7
          /\ eval.new_data[i] = 7

\* C12: without use_infrared, pixel i is first.depth[i] if nonzero, else
\* second.depth[i] if nonzero, else 0 (the first frame wins when both are
\* nonzero), and the two source depth images are as they were.
C12_DepthOnly ==
    [][(eval'.op = "merge_pixels" /\ eval'.done /\ ~eval'.use_ir) =>
          /\ Len(eval'.new_data) = Len(eval.d0)
          /\ \A i \in 1..Len(eval.d0) :
                eval'.new_data[i] =
                    IF eval.d0[i] # 0 THEN eval.d0[i]
                    ELSE IF eval.d1[i] # 0 THEN eval.d1[i]
                    ELSE 0
          /\ eval'.d0 = eval.d0
          /\ eval'.d1 = eval.d1]_vars

\* C12 witness: depth-only merge of first = <<5, 0>> and second = <<7, 7>>
\* gave <<5, 7>>.
C12_Witness ==
    /\ eval.op = "merge_pixels"
    /\ eval.done
    /\ ~eval.use_ir
    /\ eval.d0 = <<5, 0>>
    /\ eval.d1 = <<7, 7>>
    /\ eval.new_data = <<5, 7>>

\* Depth frame d and infrared frame i carry the same frame counter.
SameCounter(d, i) == counter_metadata(d) = counter_metadata(i)

\* The infrared eligibility conditions as stated, for depth frames d0, d1
\* with infrared frames i0, i1.
Eligible(d0, i0, d1, i1) ==
    /\ IsPresent(i0)
    /\ IsPresent(i1)
    /\ i0.w = d0.w /\ i0.h = d0.h
    /\ i1.w = d1.w /\ i1.h = d1.h
    /\ SameCounter(d0, i0)
    /\ SameCounter(d1, i1)
    /\ d0.seq = i0.seq
    /\ d1.seq = i1.seq

\* C13 (as stated): for a pair that passed depth validation, use_infrared is
\* true if and only if both bundles have an infrared frame, the infrared
\* width and height equal the depth width and height in both bundles, each
\* bundle's depth and infrared frame counters are equal, and each bundle's
\* depth and infrared sequence ids are equal.
C13_Claim ==
    (/\ eval.op = "check_frames_mergeability"
     /\ eval.done
     /\ DepthValid(<<eval.first_fs, eval.second_fs>>)) =>
        (eval.verdict.use_ir <=>
            Eligible(eval.first_fs.depth, eval.first_fs.ir,
                     eval.second_fs.depth, eval.second_fs.ir))

\* C14: should_process returns true if and only if the frame is present, is
\* a frameset, has a depth frame, that depth frame carries both the
\* sequence-size and the sequence-id metadata, and the sequence size is 2;
\* evaluating it changes neither the buffer nor the cached merge.
C14_ShouldProcess ==
    [][eval'.op = "should_process" =>
          /\ eval'.result <=>
                LET c == eval'.candidate
                IN  /\ c.frame # NoFrame
                    /\ c.frame.type = "frameset"
                    /\ c.frame.depth # NoFrame
                    /\ c.supports_seq_size
                    /\ c.supports_seq_id
                    /\ c.seq_size = 2
          /\ framesets' = framesets
          /\ depth_merged_frame' = depth_merged_frame]_vars

\* C14 witness: should_process accepted a frameset while the buffer held a
\* bundle and a merge was cached.
C14_Witness ==
    /\ eval.op = "should_process"
    /\ eval.result
    /\ size(framesets) = 1
    /\ depth_merged_frame.type = "merged_depth"

\* C15: a call that does not bring the buffer to occupancy 2 leaves the
\* cached merge as it was and runs no staleness check; it returns the cached
\* merge if one is present and the raw input otherwise.
C15_IncompleteKeepsCache ==
    [][/\ size(admit(framesets, f')) < 2 => path' = "incomplete"
       /\ path' = "incomplete" =>
             /\ depth_merged_frame' = depth_merged_frame
             /\ ~discarded'
             /\ ret' = IF IsPresent(depth_merged_frame)
                       THEN depth_merged_frame
                       ELSE f']_vars

\* C15 witness: a call that completed no pair kept and returned a cached
\* merge that the staleness criteria would have discarded.
C15_Witness ==
    /\ path = "incomplete"
    /\ depth_merged_frame.type = "merged_depth"
    /\ Stale(depth_merged_frame, f)
    /\ ret = depth_merged_frame

\* C16: right after a call that merged the pair (N, N+1), the cached merge
\* has the first depth frame's counter N, one less than the counter of the
\* input that completed the pair, and that input's depth width and height.
C16_InheritsFirst ==
    path = "merged" =>
        /\ depth_merged_frame.type = "merged_depth"
        /\ depth_merged_frame.counter = pair[1].depth.counter
        /\ depth_merged_frame.w = pair[1].depth.w
        /\ depth_merged_frame.h = pair[1].depth.h
        /\ depth_merged_frame.counter + 1 = f.depth.counter
        /\ depth_merged_frame.w = f.depth.w
        /\ depth_merged_frame.h = f.depth.h

\* C16 witness: the pair (0, 1) of 1280x720 frames was merged into a cached
\* frame of counter 0.
C16_Witness ==
    /\ path = "merged"
    /\ f.depth.counter = 1
    /\ f.depth.w = 1280
    /\ depth_merged_frame.counter = 0

\* C17 (as stated): from any reachable state, two consecutive well-formed
\* pairs (ids 0, 1, 0, 1, counters N .. N+3, equal depth dimensions,
\* allocation succeeding) produce at least one fresh merge by the end of the
\* fourth call and leave the buffer empty; a single well-formed pair is
\* merged when the buffer was empty as its first bundle arrived.
C17_Claim ==
    /\ script.pos = 4 => script.fresh /\ framesets = EmptyMap
    /\ (script.pos >= 2 /\ script.empty_at_start) => script.fresh_at_2

\* C18 (as stated): with one depth resolution and input frame counters that
\* never decrease, once a merge has succeeded the cached merge is never
\* absent again and every later call returns a merged frame, never the raw
\* input.
C18_Claim ==
    ever_merged =>
        /\ IsPresent(depth_merged_frame)
        /\ Returned
        /\ ret.type = "merged_depth"

====
